---------------------------- MODULE Spec2Model ----------------------------
(***************************************************************************)
(* Model of the batch renamer (jason5ng32/renamer): the plan builders,     *)
(* the conflict check and resolver, the preview gate and the two-phase     *)
(* rename, with the exit statuses of the process.                          *)
(*                                                                         *)
(* File names are sequences of one-character strings, so that formatting,  *)
(* splitting and substitution are computed as the code computes them.      *)
(* The directory is a function from the names present to the content each  *)
(* holds; a content is identified by the name the file had at start.       *)
(***************************************************************************)
EXTENDS Integers, Sequences, FiniteSets, TLC

(***************************************************************************)
(* Bounds of the model.                                                    *)
(***************************************************************************)
MaxPlan  == 3   \* longest plan drawn by InitPlan
MaxStart == 1   \* largest start number entered at a numbering prompt
MaxPad   == 2   \* largest padding width entered at a numbering prompt
MaxClock == 1   \* clock readings (ms) are 0..MaxClock

VARIABLES
  dir,            \* the directory: name -> content
  dir0,           \* history: the directory when the program started
  mode,           \* "movie", "regex", or "none" before the mode is chosen
  cfg,            \* the inputs the flow collected, a record
  pc,             \* position of the process
  plans,          \* the current plan: sequence of <<src, dst>>
  plans0,         \* history: the plan handed to check_conflicts_or_exit
  auto_resolve,   \* check_conflicts_or_exit's auto_resolve parameter
  num_start,      \* check_conflicts_or_exit's start parameter
  num_padding,    \* check_conflicts_or_exit's padding_width parameter
  had_conflict,   \* history: check_conflicts reported a conflict
  prompted,       \* history: the auto-resolve question was asked
  resolved,       \* history: resolve_conflicts_with_suffix produced plans
  shown,          \* history: the plan shown by preview_and_confirm
  confirmed,      \* history: the user's answer to the preview
  now,            \* the clock, in ms
  temp_tag,       \* two_phase_rename's temp_tag
  phase,          \* two_phase_rename: 0 not begun, 1 or 2
  idx,            \* two_phase_rename: index of the next entry in the phase
  log,            \* history: the os.replace calls that succeeded, in order
  raised,         \* the exception that ended the run, or "None"
  raised_at,      \* history: pc when the exception was raised
  rendered,       \* the string format_number returned to FormatNumber
  exit_status     \* the process's exit status, or -1 while it runs

vars == <<dir, dir0, mode, cfg, pc, plans, plans0, auto_resolve, num_start, num_padding,
          had_conflict, prompted, resolved, shown, confirmed, now, temp_tag,
          phase, idx, log, raised, raised_at, rendered, exit_status>>

NoTag == <<>>
NoCfg == <<>>

\* Python's None where a string may stand
None == <<"<None>">>

(***************************************************************************)
(* Strings.                                                                *)
(***************************************************************************)
DigitChars == <<"0", "1", "2", "3", "4", "5", "6", "7", "8", "9">>

RECURSIVE Str(_)
\* Python's str(n) for n >= 0.
Str(n) ==
  IF n < 10 THEN <<DigitChars[n + 1]>>
  ELSE Str(n \div 10) \o <<DigitChars[(n % 10) + 1]>>

\* Python's s.zfill(w) for a string without sign.
Zfill(s, w) ==
  IF Len(s) >= w THEN s ELSE [i \in 1..(w - Len(s)) |-> "0"] \o s

format_numberTruncates(num, padding_width) ==
  IF padding_width > 0
  THEN SubSeq(Zfill(Str(num), padding_width),
              Len(Zfill(Str(num), padding_width)) - padding_width + 1,
              Len(Zfill(Str(num), padding_width)))
  ELSE Str(num)

\* utils.py lines 219-223
format_number(num, padding_width) ==
  IF padding_width > 0 THEN Zfill(Str(num), padding_width) ELSE Str(num)

\* Python's s.rfind(c), 1-based; 0 when c does not occur.
RFind(s, c) ==
  LET hits == {i \in 1..Len(s) : s[i] = c}
  IN IF hits = {} THEN 0 ELSE CHOOSE i \in hits : \A j \in hits : j <= i

\* os.path.splitext on a name without separators: the last dot splits,
\* unless only dots precede it.
splitext(p) ==
  LET dotIndex == RFind(p, ".")
  IN IF dotIndex > 0 /\ \E k \in 1..(dotIndex - 1) : p[k] # "."
     THEN <<SubSeq(p, 1, dotIndex - 1), SubSeq(p, dotIndex, Len(p))>>
     ELSE <<p, <<>>>>

(***************************************************************************)
(* The file system.                                                        *)
(***************************************************************************)
\* os.replace(a, b) on a directory holding a: b takes a's content,
\* replacing whatever b held.
Replace(d, a, b) ==
  [n \in (DOMAIN d \ {a}) \cup {b} |-> IF n = b THEN d[a] ELSE d[n]]

\* {p.name for p in dir_path.iterdir()}
Listing(d) == DOMAIN d

(***************************************************************************)
(* Plans.                                                                  *)
(***************************************************************************)
Range(f) == {f[i] : i \in DOMAIN f}

PlanSources(p) == {p[i][1] : i \in 1..Len(p)}
PlanTargets(p) == {p[i][2] : i \in 1..Len(p)}

(***************************************************************************)
(* check_conflicts                                                         *)
(***************************************************************************)
ExistsConflictAnyEntry(p, existing, dst) == dst \in existing

\* line 422: the target exists and is not a source of the plan
ExistsConflict(p, existing, dst) ==
  dst \in existing /\ dst \notin PlanSources(p)

BaselineLatest(tgt, dst, src) == (dst :> src) @@ tgt

\* lines 412-420: tgt[dst] is set by the first entry with the target dst
Baseline(tgt, dst, src) ==
  IF dst \in DOMAIN tgt THEN tgt ELSE (dst :> src) @@ tgt

RECURSIVE check_conflicts_loop(_, _, _, _, _)
check_conflicts_loop(p, existing, i, tgt, conflicts) ==
  IF i > Len(p) THEN conflicts
  ELSE
    LET src == p[i][1]
        dst == p[i][2]
        dup == dst \in DOMAIN tgt
        c1  == IF dup
               THEN Append(conflicts, [type |-> "duplicate", dst |-> dst,
                                       sources |-> <<tgt[dst], src>>])
               ELSE conflicts
        tgt1 == Baseline(tgt, dst, src)
        c2  == IF ExistsConflict(p, existing, dst)
               THEN Append(c1, [type |-> "exists", dst |-> dst, source |-> src])
               ELSE c1
    IN check_conflicts_loop(p, existing, i + 1, tgt1, c2)

\* The conflicts list; has_conflict is that it is not empty.
check_conflicts(d, p) == check_conflicts_loop(p, Listing(d), 1, <<>>, <<>>)

(***************************************************************************)
(* resolve_conflicts_with_suffix                                           *)
(***************************************************************************)
SuffixedTargetAfterExt(base_name, suffix_str, ext) == base_name \o ext \o suffix_str

\* lines 472, 478: f"{base_name}{suffix_str}{ext}"
SuffixedTarget(base_name, suffix_str, ext) == base_name \o suffix_str \o ext

free_suffixNoSkip(base_name, ext, counter, padding_width, used_names) ==
  <<counter, base_name \o format_number(counter, padding_width) \o ext>>

RECURSIVE free_suffix(_, _, _, _, _)
\* lines 470-478: the first counter >= counter whose name is not used
free_suffix(base_name, ext, counter, padding_width, used_names) ==
  LET new_dst == SuffixedTarget(base_name, format_number(counter, padding_width), ext)
  IN IF new_dst \in used_names
     THEN free_suffix(base_name, ext, counter + 1, padding_width, used_names)
     ELSE <<counter, new_dst>>

RECURSIVE resolve_loop(_, _, _, _, _, _, _, _)
resolve_loop(p, existing_excluding_sources, start, padding_width, i, used_names, dst_count, resolved_plans) ==
  IF i > Len(p) THEN resolved_plans
  ELSE
    LET src == p[i][1]
        dst == p[i][2]
        has_duplicate == Cardinality({j \in 1..Len(p) : p[j][2] = dst}) > 1
        exists_in_dir == dst \in existing_excluding_sources
    IN IF has_duplicate \/ exists_in_dir
       THEN
         LET parts    == splitext(dst)
             counter0 == IF dst \notin DOMAIN dst_count THEN start
                         ELSE dst_count[dst] + 1
             found    == free_suffix(parts[1], parts[2], counter0,
                                     padding_width, used_names)
         IN resolve_loop(p, existing_excluding_sources, start, padding_width,
                         i + 1, used_names \cup {found[2]},
                         (dst :> found[1]) @@ dst_count,
                         Append(resolved_plans, <<src, found[2]>>))
       ELSE
         resolve_loop(p, existing_excluding_sources, start, padding_width,
                      i + 1, used_names \cup {dst}, dst_count,
                      Append(resolved_plans, <<src, dst>>))

resolve_conflicts_with_suffix(d, p, start, padding_width) ==
  LET existing_excluding_sources == Listing(d) \ PlanSources(p)
  IN resolve_loop(p, existing_excluding_sources, start, padding_width,
                  1, existing_excluding_sources, <<>>, <<>>)


(***************************************************************************)
(* More strings: order, case, parts of a file name.                        *)
(***************************************************************************)
\* the characters of the model, in code point order
Ascii == <<"$", "-", ".", "0", "1", "2", "3", "4", "5", "6", "7", "8", "9", "E", "S", "_", "a", "b", "c", "e", "f", "m", "o", "s", "t", "x">>

Code(c) == CHOOSE i \in 1..Len(Ascii) : Ascii[i] = c

IsDigit(c) == c \in {DigitChars[i] : i \in 1..10}

\* \w
IsWord(c) == c \notin {"$", "-", "."}

\* str.lower() on one character
LowerChar(c) == IF c = "E" THEN "e" ELSE IF c = "S" THEN "s" ELSE c

Lower(s) == [i \in 1..Len(s) |-> LowerChar(s[i])]

RECURSIVE StrLess(_, _)
\* Python's s < t on strings
StrLess(s, t) ==
  IF t = <<>> THEN FALSE
  ELSE IF s = <<>> THEN TRUE
  ELSE IF s[1] # t[1] THEN Code(s[1]) < Code(t[1])
  ELSE StrLess(Tail(s), Tail(t))

\* pathlib's p.suffix: from the last dot, unless it leads or ends the name
PathSuffix(name) ==
  LET i == RFind(name, ".")
  IN IF 1 < i /\ i < Len(name) THEN SubSeq(name, i, Len(name)) ELSE <<>>

\* pathlib's p.stem
PathStem(name) == SubSeq(name, 1, Len(name) - Len(PathSuffix(name)))

RECURSIVE IntOf(_)
\* int(s) for a string of decimal digits
IntOf(s) ==
  IF Len(s) = 1 THEN Code(s[1]) - Code("0")
  ELSE 10 * IntOf(SubSeq(s, 1, Len(s) - 1)) + (Code(s[Len(s)]) - Code("0"))

\* int(s) does not raise ValueError
IsInt(s) == s # <<>> /\ \A i \in 1..Len(s) : IsDigit(s[i])

RECURSIVE StrReplace(_, _, _)
\* Python's s.replace(old, new), old not empty: the occurrences of old,
\* found left to right without overlap, each replaced by new
StrReplace(s, old, new) ==
  IF Len(s) < Len(old) THEN s
  ELSE IF SubSeq(s, 1, Len(old)) = old
       THEN new \o StrReplace(SubSeq(s, Len(old) + 1, Len(s)), old, new)
       ELSE <<s[1]>> \o StrReplace(Tail(s), old, new)

RECURSIVE LStripDots(_)
\* re.sub(r'^\.+', '', t)
LStripDots(t) == IF t # <<>> /\ t[1] = "." THEN LStripDots(Tail(t)) ELSE t

RECURSIVE RStripDots(_)
\* re.sub(r'\.+$', '', t)
RStripDots(t) ==
  IF t # <<>> /\ t[Len(t)] = "." THEN RStripDots(SubSeq(t, 1, Len(t) - 1)) ELSE t

(***************************************************************************)
(* Regular expressions.  A compiled pattern is a sequence of items, each   *)
(* a character class with a quantifier ("1", "+" or "*", greedy) that is   *)
(* or is not a capturing group of its own: the patterns E(\d+), E\d+,      *)
(* (\w)-(\w), (\w+)-(.+) and their like.  Every group takes part in every  *)
(* match, so m.lastindex is the number of groups, or None (0) with none.   *)
(***************************************************************************)
Max(S) == CHOOSE x \in S : \A y \in S : y <= x
Min(S) == CHOOSE x \in S : \A y \in S : x <= y

Lit(c)     == [kind |-> "lit", ch |-> c, q |-> "1", cap |-> FALSE]
Cls(k, qq) == [kind |-> k, ch |-> "", q |-> qq, cap |-> FALSE]
Grp(item)  == [item EXCEPT !.cap = TRUE]

InClass(c, item, ignorecase) ==
  CASE item.kind = "lit"   -> IF ignorecase THEN LowerChar(c) = LowerChar(item.ch)
                              ELSE c = item.ch
    [] item.kind = "digit" -> IsDigit(c)
    [] item.kind = "word"  -> IsWord(c)
    [] item.kind = "any"   -> TRUE

\* how many characters from pos on (0-based) are in the item's class
RunLen(item, ignorecase, base, pos) ==
  Max({l \in 0..(Len(base) - pos) :
         \A k \in 1..l : InClass(base[pos + k], item, ignorecase)})

\* the lengths a quantifier allows on a run of run characters
LenRange(q, run) ==
  (IF q = "*" THEN 0 ELSE 1)..(IF q = "1" /\ run > 1 THEN 1 ELSE run)

RECURSIVE MatchItems(_, _, _, _, _)
\* item k takes the longest of the lengths lens with which the rest matches
MatchTake(pat, ignorecase, k, base, pos, lens) ==
  IF lens = {} THEN <<>>
  ELSE << <<pos + Max(lens)>>
          \o MatchItems(pat, ignorecase, k + 1, base, pos + Max(lens))[1] >>

\* The items k.. matched at pos: <<>> when they do not match, else <<ends>>,
\* the position after each item, the longest choice first (greedy).
MatchItems(pat, ignorecase, k, base, pos) ==
  IF k > Len(pat) THEN << <<>> >>
  ELSE MatchTake(pat, ignorecase, k, base, pos,
         {l \in LenRange(pat[k].q, RunLen(pat[k], ignorecase, base, pos)) :
            MatchItems(pat, ignorecase, k + 1, base, pos + l) # <<>>})

NoMatch == [matched |-> FALSE, span |-> <<0, 0>>, groups |-> <<>>]

\* the capturing items of pat, in order
GroupItems(pat) ==
  LET F[k \in 0..Len(pat)] ==
        IF k = 0 THEN <<>>
        ELSE IF pat[k].cap THEN Append(F[k - 1], k) ELSE F[k - 1]
  IN F[Len(pat)]

\* the match object: span is 0-based, half open; group g is the text of
\* the g-th capturing item
MatchRecord(base, s, ends, gi) ==
  [matched |-> TRUE,
   span    |-> <<s, IF ends = <<>> THEN s ELSE ends[Len(ends)]>>,
   groups  |-> [g \in 1..Len(gi) |->
                  SubSeq(base, (IF gi[g] = 1 THEN s ELSE ends[gi[g] - 1]) + 1,
                         ends[gi[g]])]]

SearchIn(reobj, base, starts) ==
  IF starts = {} THEN NoMatch
  ELSE MatchRecord(base, Min(starts),
         MatchItems(reobj.pat, reobj.ignorecase, 1, base, Min(starts))[1],
         GroupItems(reobj.pat))

\* reobj.search(base): the leftmost match
Search(reobj, base) ==
  SearchIn(reobj, base,
    {s \in 0..Len(base) : MatchItems(reobj.pat, reobj.ignorecase, 1, base, s) # <<>>})

\* m.lastindex, 0 standing for None
LastIndex(m) == Len(m.groups)

\* compiled.groups
GroupCount(pat) == Len(GroupItems(pat))

\* compile_matchers: match_src is the list of patterns between the commas
compile_matchers(match_src, flags) ==
  [k \in 1..Len(match_src) |->
     [pat |-> match_src[k], ignorecase |-> "i" \in flags]]

(***************************************************************************)
(* pick_parts                                                              *)
(***************************************************************************)
\* line 208: str(int(m.group(1)))
EpisodeAsInt(g) == Str(IntOf(g))

\* lines 212-215
PartsOf(basename_no_ext, m, preserve_format) ==
  << SubSeq(basename_no_ext, 1, m.span[1]),
     IF preserve_format THEN m.groups[1] ELSE EpisodeAsInt(m.groups[1]),
     SubSeq(basename_no_ext, m.span[2] + 1, Len(basename_no_ext)) >>

RECURSIVE pick_parts_loop(_, _, _, _)
\* lines 196-211 on the match m of matcher k: no match, no group, or a
\* group 1 that int() rejects: the next matcher
pick_parts_try(basename_no_ext, matchers, preserve_format, k, m) ==
  IF \/ ~m.matched
     \/ LastIndex(m) = 0
     \/ (~preserve_format /\ ~IsInt(m.groups[1]))
  THEN pick_parts_loop(basename_no_ext, matchers, preserve_format, k + 1)
  ELSE PartsOf(basename_no_ext, m, preserve_format)

pick_parts_loop(basename_no_ext, matchers, preserve_format, k) ==
  IF k > Len(matchers) THEN None
  ELSE pick_parts_try(basename_no_ext, matchers, preserve_format, k,
                      Search(matchers[k], basename_no_ext))

\* None, or <<pre, ep, tail>>
pick_parts(basename_no_ext, matchers, preserve_format) ==
  pick_parts_loop(basename_no_ext, matchers, preserve_format, 1)

(***************************************************************************)
(* The candidate files and their order.                                    *)
(***************************************************************************)
\* [p for p in dir_path.iterdir() if is_file(p) and
\*  p.suffix.lower() == f".{ext.lower()}"], as a set: every entry of the
\* model's directories is a regular file
Candidates(d, ext) ==
  {n \in DOMAIN d : Lower(PathSuffix(n)) = <<".">> \o Lower(ext)}

RECURSIVE Orders(_)
\* the orders in which iterdir() may yield the set S
Orders(S) ==
  IF S = {} THEN {<<>>}
  ELSE UNION {{<<x>> \o f : f \in Orders(S \ {x})} : x \in S}

\* files.sort(key=lambda p: p.name)
SortByName(S) ==
  CHOOSE f \in Orders(S) : \A i, j \in DOMAIN f : i < j => StrLess(f[i], f[j])

\* st_mtime of the files of the model: the later in this list, the newer
MtimeOrder == << <<"a", ".", "E", "0", "1", ".", "m">>, <<"0", "7", "-", "b", ".", "m">>, <<"a", "-", "$", "1", ".", "m">>, <<"2", "-", "1", ".", "m">>, <<"1", "-", "2", ".", "m">>, <<"b", ".", "E", "1", ".", "m">>, <<"a", ".", "E", "1", ".", "m">>, <<"S", ".", "E", "1", ".", "m">> >>

Mtime(d, n) == CHOOSE i \in 1..Len(MtimeOrder) : MtimeOrder[i] = d[n]

\* files.sort(key=lambda p: p.stat().st_mtime)
SortByMtime(d, S) ==
  CHOOSE f \in Orders(S) : \A i, j \in DOMAIN f : i < j => Mtime(d, f[i]) < Mtime(d, f[j])

SortFiles(d, files, sort_key) ==
  IF sort_key = "mtime" THEN SortByMtime(d, Range(files)) ELSE SortByName(Range(files))

(***************************************************************************)
(* The plan builders.                                                      *)
(***************************************************************************)
KeepEvery(name, new_name) == TRUE

\* if p.name != new_name: plans.append((p.name, new_name))
KeepEntry(name, new_name) == name # new_name

RECURSIVE AppendKept(_, _, _)
\* the entries <<files[i], new[i]>> kept, in order; new[i] = None for a
\* file the loop skipped
AppendKept(files, new, i) ==
  IF i > Len(files) THEN <<>>
  ELSE (IF new[i] # None /\ KeepEntry(files[i], new[i])
        THEN << <<files[i], new[i]>> >> ELSE <<>>)
       \o AppendKept(files, new, i + 1)

RECURSIVE FirstSearchLoop(_, _, _)
FirstSearchTry(matchers, base, k, m) ==
  IF m.matched THEN m ELSE FirstSearchLoop(matchers, base, k + 1)

FirstSearchLoop(matchers, base, k) ==
  IF k > Len(matchers) THEN NoMatch
  ELSE FirstSearchTry(matchers, base, k, Search(matchers[k], base))

\* the first matcher whose search succeeds (normal_mode.py lines 234-239)
FirstSearch(matchers, base) == FirstSearchLoop(matchers, base, 1)

RECURSIVE substitute(_, _, _)
\* normal_mode.py lines 246-255: for i in range(lastindex, 0, -1):
\*   new_base = new_base.replace(f"${i}", group(i))
substitute(new_base, groups, i) ==
  IF i = 0 THEN new_base
  ELSE substitute(StrReplace(new_base, <<"$">> \o Str(i), groups[i]), groups, i - 1)

\* "if to_prefix": neither None nor empty
Truthy(x) == x # None /\ x # <<>>

\* normal_mode.py lines 220-222, file i (1-based) of the sorted list
NormalSeqName(c, i) ==
  c.to_prefix \o format_number(c.start + (i - 1), c.padding_width)
    \o <<".">> \o c.new_ext

\* normal_mode.py lines 241-257 on the match m
TemplateName(c, m) ==
  IF ~m.matched THEN None
  ELSE substitute(c.replace_expr, m.groups, LastIndex(m)) \o <<".">> \o c.new_ext

\* normal_mode.py lines 274-282 on the match m
PrefixName(c, m, name) ==
  IF ~m.matched THEN None
  ELSE (IF Truthy(c.to_prefix) THEN c.to_prefix ELSE PathStem(name))
         \o <<".">> \o c.new_ext

RECURSIVE SeqShifted(_, _, _, _)
SeqShifted(sorted, c, i, n) ==
  IF i > Len(sorted) THEN <<>>
  ELSE IF sorted[i] # c.to_prefix \o format_number(n, c.padding_width) \o <<".">> \o c.new_ext
  THEN << <<sorted[i], c.to_prefix \o format_number(n, c.padding_width) \o <<".">> \o c.new_ext>> >>
         \o SeqShifted(sorted, c, i + 1, n + 1)
  ELSE SeqShifted(sorted, c, i + 1, n)

NormalSeqPlanShifted(sorted, c) == SeqShifted(sorted, c, 1, c.start)

NormalSeqPlan(sorted, c) ==
  AppendKept(sorted, [i \in 1..Len(sorted) |-> NormalSeqName(c, i)], 1)

TemplatePlan(files, c, matchers) ==
  AppendKept(files, [i \in 1..Len(files) |->
                       TemplateName(c, FirstSearch(matchers, PathStem(files[i])))], 1)

PrefixPlan(files, c, matchers) ==
  AppendKept(files, [i \in 1..Len(files) |->
                       PrefixName(c, FirstSearch(matchers, PathStem(files[i])), files[i])], 1)

\* build_plans_normal_mode on the files in the order iterdir() gave
build_plans_normal_mode(d, files, c) ==
  IF c.match_src = <<>>
  THEN NormalSeqPlan(SortFiles(d, files, c.sort_key), c)
  ELSE IF c.total_capture_groups > 0 /\ Truthy(c.replace_expr)
  THEN TemplatePlan(files, c, compile_matchers(c.match_src, c.flags))
  ELSE PrefixPlan(files, c, compile_matchers(c.match_src, c.flags))

\* utils.py lines 361-363, file i (1-based) of the sorted list
MovieSeqName(c, i, name) ==
  c.to_prefix \o format_number(c.start + (i - 1), c.padding_width)
    \o PathSuffix(name)

\* utils.py line 376
LeftOf(to_prefix) ==
  IF to_prefix # <<>> /\ to_prefix[Len(to_prefix)] = "."
  THEN SubSeq(to_prefix, 1, Len(to_prefix) - 1) ELSE to_prefix

\* utils.py lines 379-384
EpisodeFormatted(ep, padding_width) ==
  IF IsInt(ep) THEN format_number(IntOf(ep), padding_width) ELSE ep

\* utils.py lines 388-393; t is the tail without its outer dots
MidOf(suffix, t) ==
  IF suffix # None
  THEN (IF suffix # <<>> THEN <<".">> \o suffix ELSE <<>>)
  ELSE (IF t # <<>> THEN <<".">> \o t ELSE <<>>)

\* utils.py lines 371-396 on the parts pick_parts returned
EpisodeName(c, parts, name) ==
  IF parts = None THEN None
  ELSE LeftOf(c.to_prefix) \o <<".", "E">>
         \o EpisodeFormatted(parts[2], c.padding_width)
         \o MidOf(c.suffix, RStripDots(LStripDots(parts[3])))
         \o PathSuffix(name)

MovieSeqPlan(sorted, c) ==
  AppendKept(sorted, [i \in 1..Len(sorted) |-> MovieSeqName(c, i, sorted[i])], 1)

EpisodePlan(files, c, matchers) ==
  AppendKept(files, [i \in 1..Len(files) |->
                       EpisodeName(c, pick_parts(PathStem(files[i]), matchers, FALSE),
                                   files[i])], 1)

\* build_plans on the files in the order iterdir() gave
build_plans(d, files, c) ==
  IF c.match_src = <<>>
  THEN MovieSeqPlan(SortFiles(d, files, c.sort_key), c)
  ELSE EpisodePlan(files, c, compile_matchers(c.match_src, c.flags))

(***************************************************************************)
(* The zero-match gate and the validation of the inputs.                   *)
(***************************************************************************)
\* count_matches; match_src = None: no pattern set yet
count_matches(d, ext, match_src, flags) ==
  IF match_src = None \/ match_src = <<>> THEN Cardinality(Candidates(d, ext))
  ELSE Cardinality({n \in Candidates(d, ext) :
         pick_parts(PathStem(n), compile_matchers(match_src, flags), FALSE) # None})

\* count_capture_groups: the sum of the patterns' group counts
count_capture_groups(match_src) ==
  LET F[k \in 0..Len(match_src)] ==
        IF k = 0 THEN 0 ELSE F[k - 1] + GroupCount(match_src[k])
  IN F[Len(match_src)]

MaxOrZero(S) == IF S = {} THEN 0 ELSE Max(S)

\* the "$n" of the expression, n a maximal run of digits (re.findall of
\* \$(\d+)), as pairs <<index of "$", index of the last digit>>
References(replace_expr) ==
  {ij \in (1..Len(replace_expr)) \X (1..Len(replace_expr)) :
     /\ ij[1] < ij[2]
     /\ replace_expr[ij[1]] = "$"
     /\ \A k \in (ij[1] + 1)..ij[2] : IsDigit(replace_expr[k])
     /\ (ij[2] = Len(replace_expr) \/ ~IsDigit(replace_expr[ij[2] + 1]))}

\* count_replace_references: the largest n referred to; 0 with none
count_replace_references(replace_expr) ==
  MaxOrZero({IntOf(SubSeq(replace_expr, ij[1] + 1, ij[2])) : ij \in References(replace_expr)})

(***************************************************************************)
(* Process exit.  sys.exit(n) raises SystemExit, which main's handlers     *)
(* (KeyboardInterrupt, EOFError) do not catch: the status is n.  A         *)
(* KeyboardInterrupt reaching main is caught there: the status is 0.       *)
(***************************************************************************)
Running == pc # "exit"

\* sys.exit(status)
SysExit(status) ==
  /\ pc' = "exit"
  /\ exit_status' = status
  /\ raised' = "SystemExit"
  /\ raised_at' = pc

\* main falls off its end
MainReturns ==
  /\ pc' = "exit"
  /\ exit_status' = 0
  /\ UNCHANGED <<raised, raised_at>>

InterruptStatus == 0

\* renamer.py lines 81-83: except KeyboardInterrupt: ... sys.exit(0)
main_except_KeyboardInterrupt ==
  /\ pc' = "exit"
  /\ exit_status' = InterruptStatus
  /\ raised' = "KeyboardInterrupt"
  /\ raised_at' = pc

(***************************************************************************)
(* check_conflicts_or_exit                                                 *)
(***************************************************************************)
CheckFrame == UNCHANGED <<rendered, dir, dir0, mode, cfg, plans0, auto_resolve, num_start,
                          num_padding, shown, confirmed, now, temp_tag,
                          phase, idx, log>>

\* lines 495-498: no conflict, the plan is returned as it is
CheckNoConflict ==
  /\ pc = "check"
  /\ check_conflicts(dir, plans) = <<>>
  /\ pc' = "preview"
  /\ UNCHANGED <<plans, had_conflict, prompted, resolved, raised, raised_at,
                 exit_status>>
  /\ CheckFrame

\* lines 519-523: auto_resolve, with the caller's start and padding_width
CheckAutoResolve ==
  /\ pc = "check"
  /\ check_conflicts(dir, plans) # <<>>
  /\ auto_resolve
  /\ plans' = resolve_conflicts_with_suffix(dir, plans, num_start, num_padding)
  /\ had_conflict' = TRUE
  /\ resolved' = TRUE
  /\ pc' = "preview"
  /\ UNCHANGED <<prompted, raised, raised_at, exit_status>>
  /\ CheckFrame

\* lines 528-535: the user accepts and enters the suffix numbering
CheckAskAccept ==
  /\ pc = "check"
  /\ check_conflicts(dir, plans) # <<>>
  /\ ~auto_resolve
  /\ \E conflict_start \in 0..MaxStart, conflict_padding \in 0..MaxPad :
       plans' = resolve_conflicts_with_suffix(dir, plans, conflict_start,
                                              conflict_padding)
  /\ had_conflict' = TRUE
  /\ prompted' = TRUE
  /\ resolved' = TRUE
  /\ pc' = "preview"
  /\ UNCHANGED <<raised, raised_at, exit_status>>
  /\ CheckFrame

DeclineStatus == 2

CheckAskDeclineSkips ==
  /\ pc = "check"
  /\ check_conflicts(dir, plans) # <<>>
  /\ ~auto_resolve
  /\ had_conflict' = TRUE
  /\ prompted' = TRUE
  /\ pc' = "preview"
  /\ UNCHANGED <<plans, resolved, raised, raised_at, exit_status>>
  /\ CheckFrame

\* lines 536-538: the user declines
CheckAskDecline ==
  /\ pc = "check"
  /\ check_conflicts(dir, plans) # <<>>
  /\ ~auto_resolve
  /\ had_conflict' = TRUE
  /\ prompted' = TRUE
  /\ SysExit(DeclineStatus)
  /\ UNCHANGED <<plans, resolved>>
  /\ CheckFrame

check_conflicts_or_exit ==
  \/ CheckNoConflict
  \/ CheckAutoResolve
  \/ CheckAskAccept
  \/ CheckAskDecline

(***************************************************************************)
(* preview_and_confirm and the flows' branch on its answer                 *)
(***************************************************************************)
PreviewFrame == UNCHANGED <<rendered, dir, dir0, mode, cfg, plans, plans0, auto_resolve, num_start,
                            num_padding, had_conflict, prompted, resolved,
                            now, temp_tag, phase, idx, log>>

PreviewConfirm ==
  /\ pc = "preview"
  /\ shown' = plans
  /\ confirmed' = TRUE
  /\ pc' = "confirmed"
  /\ UNCHANGED <<raised, raised_at, exit_status>>
  /\ PreviewFrame

PreviewDeclineProceeds ==
  /\ pc = "preview"
  /\ shown' = plans
  /\ confirmed' = FALSE
  /\ pc' = "confirmed"
  /\ UNCHANGED <<raised, raised_at, exit_status>>
  /\ PreviewFrame

\* the flow prints "cancelled" and returns; main returns
PreviewDecline ==
  /\ pc = "preview"
  /\ shown' = plans
  /\ confirmed' = FALSE
  /\ MainReturns
  /\ PreviewFrame

(***************************************************************************)
(* two_phase_rename                                                        *)
(***************************************************************************)
\* line 279: f".__tmp__{int(time.time()*1000)}__"
TempTag(ms) ==
  <<".", "_", "_", "t", "m", "p", "_", "_">> \o Str(ms) \o <<"_", "_">>

CurrentTagReread == TempTag(now)

\* temp_tag is computed once, before the loops
CurrentTag == temp_tag

TempNameSame(src, tag) == src

\* lines 283, 286: f"{src}{temp_tag}"
TempName(src, tag) == src \o tag

CommitFrame == UNCHANGED <<rendered, dir0, mode, cfg, plans, plans0, auto_resolve, num_start,
                           num_padding, had_conflict, prompted, resolved,
                           shown, confirmed>>

two_phase_rename_begin ==
  /\ pc = "confirmed"
  /\ temp_tag' = TempTag(now)
  /\ phase' = 1
  /\ idx' = 1
  /\ pc' = "commit"
  /\ UNCHANGED <<dir, now, log, raised, raised_at, exit_status>>
  /\ CommitFrame

\* the operands of the next os.replace
NextOp ==
  LET src == plans[idx][1]
      dst == plans[idx][2]
  IN IF phase = 1 THEN <<src, TempName(src, CurrentTag)>>
     ELSE <<TempName(src, CurrentTag), dst>>

FailStatus == 3

\* lines 289-292: except Exception: ... sys.exit(3)
two_phase_rename_except ==
  /\ pc' = "exit"
  /\ exit_status' = FailStatus
  /\ raised' = "OSError"
  /\ raised_at' = pc

\* lines 281-288: one os.replace of either loop.  It raises when its
\* source is missing.
RenameStep ==
  /\ pc = "commit"
  /\ LET op == NextOp
     IN IF op[1] \in DOMAIN dir
        THEN /\ dir' = Replace(dir, op[1], op[2])
             /\ log' = Append(log, op)
             /\ IF idx < Len(plans)
                THEN /\ idx' = idx + 1
                     /\ UNCHANGED <<phase, pc>>
                ELSE IF phase = 1
                     THEN /\ phase' = 2
                          /\ idx' = 1
                          /\ pc' = pc
                     ELSE /\ pc' = "renamed"
                          /\ UNCHANGED <<phase, idx>>
             /\ UNCHANGED <<raised, raised_at, exit_status>>
        ELSE /\ two_phase_rename_except
             /\ UNCHANGED <<dir, log, phase, idx>>
  /\ UNCHANGED <<now, temp_tag>>
  /\ CommitFrame

RenameFailsRollback ==
  /\ pc = "commit"
  /\ two_phase_rename_except
  /\ dir' = dir0
  /\ UNCHANGED <<log, phase, idx, now, temp_tag>>
  /\ CommitFrame

\* os.replace raises for a reason of the environment (permissions, I/O)
RenameFails ==
  /\ pc = "commit"
  /\ two_phase_rename_except
  /\ UNCHANGED <<dir, log, phase, idx, now, temp_tag>>
  /\ CommitFrame

\* the flow prints "done" and returns; main returns
CommitReturns ==
  /\ pc = "renamed"
  /\ MainReturns
  /\ UNCHANGED <<dir, log, phase, idx, now, temp_tag>>
  /\ CommitFrame

\* time passes while the renames run
Tick ==
  /\ pc = "commit"
  /\ now < MaxClock
  /\ now' = now + 1
  /\ UNCHANGED <<rendered, dir, dir0, mode, cfg, pc, plans, plans0, auto_resolve, num_start,
                 num_padding, had_conflict, prompted, resolved, shown,
                 confirmed, temp_tag, phase, idx, log, raised, raised_at,
                 exit_status>>

\* Ctrl-C: KeyboardInterrupt is raised wherever the process is, no handler
\* below main catches it (two_phase_rename catches Exception only)
Interrupt ==
  /\ Running
  /\ main_except_KeyboardInterrupt
  /\ UNCHANGED <<rendered, dir, dir0, mode, cfg, plans, plans0, auto_resolve, num_start,
                 num_padding, had_conflict, prompted, resolved, shown,
                 confirmed, now, temp_tag, phase, idx, log>>

(***************************************************************************)
(* The flows: main, flow_movie_mode, flow_normal_mode.                     *)
(***************************************************************************)
FlowFrame == UNCHANGED <<rendered, dir, dir0, had_conflict, prompted, resolved, shown, confirmed, now, temp_tag, phase, idx, log>>

\* renamer.py lines 74-80: the mode menu
ChooseMode ==
  /\ pc = "main"
  /\ mode' \in {"movie", "regex"}
  /\ pc' = "inputs"
  /\ UNCHANGED <<cfg, plans, plans0, auto_resolve, num_start, num_padding, raised, raised_at, exit_status>>
  /\ FlowFrame

\* The patterns of the model's inputs.
PatE       == <<Lit("E"), Grp(Cls("digit", "+"))>>                              \* E(\d+)
PatNoGroup == <<Lit("E"), Cls("digit", "+")>>                                   \* E\d+
PatSwap    == <<Grp(Cls("word", "1")), Lit("-"), Grp(Cls("word", "1"))>>        \* (\w)-(\w)
PatTail    == <<Grp(Cls("word", "+")), Lit("-"), Grp(Cls("any", "+"))>>         \* (\w+)-(.+)

Cfg(ext, match_src, flags, to_prefix, suffix, start, sort_key, padding_width, replace_expr, new_ext) ==
  [ext |-> ext, match_src |-> match_src, flags |-> flags, to_prefix |-> to_prefix,
   suffix |-> suffix, start |-> start, sort_key |-> sort_key,
   padding_width |-> padding_width, replace_expr |-> replace_expr,
   total_capture_groups |-> count_capture_groups(match_src), new_ext |-> new_ext]

\* flow_movie_mode's inputs: a preset or a custom pattern with a group,
\* the flags, the prefix, the tail kept (None) or replaced; start 0,
\* sort by name and padding 0 are fixed (video_mode.py lines 121-123)
MovieCfgs ==
  {Cfg(<<"m">>, <<PatE>>, fl, <<"S">>, suffix, 0, "name", 0, None, <<"m">>) :
     fl \in {{"i"}, {}}, suffix \in {None, <<"x">>}}

\* the templates entered at the replacement prompt
FlowTemplates == {<<"$", "2", "-", "$", "1">>, <<"$", "1", "-", "$", "2">>, <<"x">>}

\* flow_normal_mode's inputs: sequential numbering, or a pattern with its
\* replacement expression (None when the pattern has no group)
RegexCfgs ==
  {Cfg(<<"m">>, <<>>, {}, <<"S", ".", "E">>, None, st, sk, pw, None, ne) :
     st \in 0..MaxStart, sk \in {"name", "mtime"}, pw \in 0..MaxPad, ne \in {<<"m">>, <<"t">>}}
  \cup {Cfg(<<"m">>, <<PatSwap>>, {}, None, None, 0, "name", 0, t, <<"m">>) : t \in FlowTemplates}
  \cup {Cfg(<<"m">>, <<PatNoGroup>>, {}, <<"S">>, None, 0, "name", 0, None, <<"m">>)}

\* normal_mode.py lines 130-133: no reference beyond the groups counted
ValidTemplate(c) ==
  c.replace_expr # None =>
     /\ c.replace_expr # <<>>
     /\ count_replace_references(c.replace_expr) <= c.total_capture_groups

\* check_matches_and_retry finds a match at the extension prompt and at
\* the pattern prompt
GatesPass(d, c) ==
  /\ count_matches(d, c.ext, None, {"i"}) > 0
  /\ count_matches(d, c.ext, c.match_src, c.flags) > 0

\* the inputs are collected; every gate found a match
Inputs ==
  /\ pc = "inputs"
  /\ \E c \in (IF mode = "movie" THEN MovieCfgs ELSE RegexCfgs) :
       /\ GatesPass(dir, c)
       /\ ValidTemplate(c)
       /\ cfg' = c
  /\ pc' = "build"
  /\ UNCHANGED <<mode, plans, plans0, auto_resolve, num_start, num_padding, raised, raised_at, exit_status>>
  /\ FlowFrame

\* utils.py lines 335-340: a gate found no match and the user does not
\* reconfigure
GateExit ==
  /\ pc = "inputs"
  /\ \E c \in (IF mode = "movie" THEN MovieCfgs ELSE RegexCfgs) : ~GatesPass(dir, c)
  /\ SysExit(0)
  /\ UNCHANGED <<mode, cfg, plans, plans0, auto_resolve, num_start, num_padding>>
  /\ FlowFrame

\* the flow after the builder returned p: no plan exits with status 0,
\* else check_conflicts_or_exit(dir_path, plans, start, padding_width)
AfterBuild(p) ==
  /\ plans' = p
  /\ plans0' = p
  /\ auto_resolve' = FALSE
  /\ num_start' = cfg.start
  /\ num_padding' = cfg.padding_width
  /\ IF p = <<>> THEN SysExit(0)
     ELSE pc' = "check" /\ UNCHANGED <<raised, raised_at, exit_status>>
  /\ UNCHANGED <<mode, cfg>>
  /\ FlowFrame

\* video_mode.py lines 125-128
BuildMovie ==
  /\ pc = "build"
  /\ mode = "movie"
  /\ \E files \in Orders(Candidates(dir, cfg.ext)) : AfterBuild(build_plans(dir, files, cfg))

\* normal_mode.py lines 185-191
BuildRegex ==
  /\ pc = "build"
  /\ mode = "regex"
  /\ \E files \in Orders(Candidates(dir, cfg.ext)) : AfterBuild(build_plans_normal_mode(dir, files, cfg))

(***************************************************************************)
(* Spec: the program from main on, over the directories of FlowPool.       *)
(***************************************************************************)
FlowPool == {<<"a", ".", "E", "1", ".", "m">>, <<"b", ".", "E", "1", ".", "m">>, <<"S", ".", "E", "1", ".", "m">>, <<"1", "-", "2", ".", "m">>, <<"2", "-", "1", ".", "m">>}

FlowDirs == {[n \in X |-> n] : X \in SUBSET FlowPool}

InitCommon ==
  /\ dir0 = dir
  /\ had_conflict = FALSE
  /\ prompted = FALSE
  /\ resolved = FALSE
  /\ shown = <<>>
  /\ confirmed = FALSE
  /\ now = 0
  /\ temp_tag = NoTag
  /\ phase = 0
  /\ idx = 0
  /\ log = <<>>
  /\ raised = "None"
  /\ raised_at = "None"
  /\ rendered = <<>>
  /\ exit_status = -1

Init ==
  /\ dir \in FlowDirs
  /\ mode = "none"
  /\ cfg = NoCfg
  /\ pc = "main"
  /\ plans = <<>>
  /\ plans0 = <<>>
  /\ auto_resolve = FALSE
  /\ num_start = 0
  /\ num_padding = 0
  /\ InitCommon

\* No caller passes auto_resolve: CheckAutoResolve is not a step of the
\* program from main on.
Next ==
  \/ ChooseMode
  \/ Inputs
  \/ GateExit
  \/ BuildMovie
  \/ BuildRegex
  \/ CheckNoConflict
  \/ CheckAskAccept
  \/ CheckAskDecline
  \/ PreviewConfirm
  \/ PreviewDecline
  \/ two_phase_rename_begin
  \/ RenameStep
  \/ RenameFails
  \/ CommitReturns
  \/ Tick
  \/ Interrupt

Spec == Init /\ [][Next]_vars

(***************************************************************************)
(* SpecPlan: check_conflicts_or_exit, the preview and two_phase_rename on  *)
(* every directory and plan over a small universe of names.                *)
(***************************************************************************)
Name(stem) == stem \o <<".", "t">>

SrcPool   == {Name(<<"a">>), Name(<<"b">>), Name(<<"c">>)}
ExtraPool == {Name(<<"o">>), Name(<<"o", "0">>)}
TgtPool   == SrcPool \cup ExtraPool

\* The directories: every file starts with its own content.
Dirs == {[n \in SrcPool \cup X |-> n] : X \in SUBSET ExtraPool}

\* Plans as the builders emit them: distinct sources that exist, and no
\* entry with source = target.
PlansOver(d) ==
  UNION {{p \in [1..k -> (SrcPool \X TgtPool)] :
            /\ \A i \in 1..k : p[i][1] # p[i][2]
            /\ \A i, j \in 1..k : i # j => p[i][1] # p[j][1]} : k \in 1..MaxPlan}

InitPlan ==
  /\ dir \in Dirs
  /\ mode = "none"
  /\ cfg = NoCfg
  /\ plans \in PlansOver(dir)
  /\ plans0 = plans
  /\ pc = "check"
  /\ auto_resolve \in BOOLEAN
  /\ num_start \in 0..MaxStart
  /\ num_padding \in 0..MaxPad
  /\ (~auto_resolve => num_start = 0 /\ num_padding = 0)
  /\ InitCommon

NextPlan ==
  \/ CheckNoConflict
  \/ CheckAutoResolve
  \/ CheckAskAccept
  \/ CheckAskDecline
  \/ PreviewConfirm
  \/ PreviewDecline
  \/ two_phase_rename_begin
  \/ RenameStep
  \/ RenameFails
  \/ CommitReturns
  \/ Tick
  \/ Interrupt

SpecPlan == InitPlan /\ [][NextPlan]_vars

(***************************************************************************)
(* SpecSuffix: as SpecPlan, over names of which one is another with a      *)
(* number after its stem, and with any file of the directory as a source.  *)
(***************************************************************************)
MaxSuffixPlan == 2

SuffixPool == {Name(<<"x">>), Name(<<"x", "0">>), Name(<<"x", "1">>), Name(<<"a">>)}

SuffixDirs == {[n \in X |-> n] : X \in (SUBSET SuffixPool) \ {{}}}

\* Plans as the builders emit them: distinct sources that exist, and no
\* entry with source = target.
SuffixPlansOver(d) ==
  UNION {{p \in [1..k -> ((DOMAIN d) \X SuffixPool)] :
            /\ \A i \in 1..k : p[i][1] # p[i][2]
            /\ \A i, j \in 1..k : i # j => p[i][1] # p[j][1]} : k \in 1..MaxSuffixPlan}

InitSuffix ==
  /\ dir \in SuffixDirs
  /\ mode = "none"
  /\ cfg = NoCfg
  /\ plans \in SuffixPlansOver(dir)
  /\ plans0 = plans
  /\ pc = "check"
  /\ auto_resolve \in BOOLEAN
  /\ num_start \in 0..MaxStart
  /\ num_padding \in 0..MaxPad
  /\ (~auto_resolve => num_start = 0 /\ num_padding = 0)
  /\ InitCommon

SpecSuffix == InitSuffix /\ [][NextPlan]_vars

(***************************************************************************)
(* SpecBuild: the two plan builders called on every directory of at most   *)
(* MaxFiles files of BuildPool and on every configuration of BuildCfgs,    *)
(* the configurations of the flows and those only a direct call can pass   *)
(* (build_plans without a pattern).                                        *)
(***************************************************************************)
MaxFiles == 3
MaxTemplate == 2

BuildPool == {<<"a", ".", "E", "0", "1", ".", "m">>, <<"S", ".", "E", "1", ".", "m">>, <<"a", ".", "E", "1", ".", "m">>, <<"1", "-", "2", ".", "m">>, <<"0", "7", "-", "b", ".", "m">>, <<"a", "-", "$", "1", ".", "m">>}

BuildDirs == {[n \in X |-> n] : X \in {Y \in SUBSET BuildPool : Cardinality(Y) <= MaxFiles}}

\* the replacement expressions of at most MaxTemplate characters
BuildTemplates ==
  FlowTemplates \cup UNION {[1..k -> {"$", "1", "2", "-"}] : k \in 1..MaxTemplate}

MovieBuildCfgs ==
  MovieCfgs
  \cup {Cfg(<<"m">>, <<PatNoGroup, PatE>>, {}, <<"S">>, None, 0, "name", 0, None, <<"m">>)}
  \cup {Cfg(<<"m">>, <<>>, {"i"}, <<"S", ".", "E">>, None, st, sk, pw, None, <<"m">>) :
          st \in 0..MaxStart, sk \in {"name", "mtime"}, pw \in 0..MaxPad}

RegexBuildCfgs ==
  RegexCfgs
  \cup {c \in {Cfg(<<"m">>, <<PatTail>>, {}, None, None, 0, "name", 0, t, <<"m">>) :
                 t \in BuildTemplates} : ValidTemplate(c)}
  \cup {Cfg(<<"m">>, <<PatNoGroup, PatE>>, {}, None, None, 0, "name", 0, t, <<"m">>) :
          t \in {<<"$", "1">>, <<"x">>}}

InitBuild ==
  /\ dir \in BuildDirs
  /\ mode \in {"movie", "regex"}
  /\ cfg \in (IF mode = "movie" THEN MovieBuildCfgs ELSE RegexBuildCfgs)
  /\ pc = "build"
  /\ plans = <<>>
  /\ plans0 = <<>>
  /\ auto_resolve = FALSE
  /\ num_start = 0
  /\ num_padding = 0
  /\ InitCommon

NextBuild ==
  \/ BuildMovie
  \/ BuildRegex

SpecBuild == InitBuild /\ [][NextBuild]_vars

(***************************************************************************)
(* SpecNum: format_number called on every number of 0..MaxNum with every   *)
(* padding width of 0..MaxPad.                                             *)
(***************************************************************************)
MaxNum == 123

InitNum ==
  /\ dir = <<>>
  /\ mode = "none"
  /\ cfg = NoCfg
  /\ pc = "format"
  /\ plans = <<>>
  /\ plans0 = <<>>
  /\ auto_resolve = FALSE
  /\ num_start \in 0..MaxNum
  /\ num_padding \in 0..MaxPad
  /\ InitCommon

\* n_str = format_number(n, padding_width)
FormatNumber ==
  /\ pc = "format"
  /\ rendered' = format_number(num_start, num_padding)
  /\ pc' = "formatted"
  /\ UNCHANGED <<dir, dir0, mode, cfg, plans, plans0, auto_resolve, num_start,
                 num_padding, had_conflict, prompted, resolved, shown,
                 confirmed, now, temp_tag, phase, idx, log, raised, raised_at,
                 exit_status>>

NextNum == FormatNumber

SpecNum == InitNum /\ [][NextNum]_vars

(***************************************************************************)
(* Vocabulary of the claims.                                               *)
(***************************************************************************)
TargetsDistinct(p) ==
  \A i, j \in 1..Len(p) : i # j => p[i][2] # p[j][2]

\* the entries of d the plan does not rename away
Untouched(p, d) == DOMAIN d \ PlanSources(p)

\* no two entries share a target, no target is an untouched entry
ConflictFree(p, d) ==
  /\ TargetsDistinct(p)
  /\ PlanTargets(p) \cap Untouched(p, d) = {}

\* two_phase_rename returned
RenameCompleted ==
  \/ pc = "renamed"
  \/ pc = "exit" /\ raised = "None" /\ confirmed
  \/ pc = "exit" /\ raised_at = "renamed"

\* the os.replace calls of a whole commit of p with tag
ExpectedOps(p, tag) ==
  [k \in 1..(2 * Len(p)) |->
     IF k <= Len(p) THEN <<p[k][1], p[k][1] \o tag>>
     ELSE <<p[k - Len(p)][1] \o tag, p[k - Len(p)][2]>>]

IsPrefix(s, t) == Len(s) <= Len(t) /\ s = SubSeq(t, 1, Len(s))

(***************************************************************************)
(* C1: the plan returned by the auto-resolve step has pairwise distinct    *)
(* targets, none of them an entry of the directory that is not a source of *)
(* the plan.                                                               *)
(***************************************************************************)
C1_ResolvedPlanConflictFree ==
  resolved => ConflictFree(plans, dir0)

(***************************************************************************)
(* C2: for a plan with distinct existing sources and targets that are      *)
(* distinct and disjoint from the untouched entries, a two_phase_rename    *)
(* that completes leaves each source's content under its target and every  *)
(* file outside the plan as it was, swaps and chains included.             *)
(***************************************************************************)
C2_TwoPhaseRenameMovesContent ==
  (RenameCompleted /\ ConflictFree(plans, dir0)) =>
     /\ \A i \in 1..Len(plans) :
          /\ plans[i][2] \in DOMAIN dir
          /\ dir[plans[i][2]] = dir0[plans[i][1]]
     /\ \A n \in Untouched(plans, dir0) : n \in DOMAIN dir /\ dir[n] = dir0[n]
     /\ DOMAIN dir = PlanTargets(plans) \cup Untouched(plans, dir0)

\* a completed commit of a plan holding a swap A->B, B->A
C2_Witness ==
  /\ pc = "renamed"
  /\ ConflictFree(plans, dir0)
  /\ \E i, j \in 1..Len(plans) :
       i # j /\ plans[i][2] = plans[j][1] /\ plans[j][2] = plans[i][1]

(***************************************************************************)
(* C3: the renames performed are, in order, a prefix of: every source to   *)
(* source + tag in plan order, then every source + tag to its target in    *)
(* plan order, with one tag for the whole commit; when Phase 1 is over and *)
(* no final name is assigned yet, no source carries its original name.     *)
(***************************************************************************)
C3_PhasesInOrderOneTag ==
  phase \in {1, 2} =>
     /\ \E ms \in 0..MaxClock : IsPrefix(log, ExpectedOps(plans, TempTag(ms)))
     /\ (phase = 2 /\ Len(log) = Len(plans)) =>
           PlanSources(plans) \cap DOMAIN dir = {}
     /\ (phase = 1) => Len(log) < Len(plans)
     /\ (phase = 2) => Len(log) >= Len(plans)

\* Phase 1 of a plan of two or more entries is over, the clock has moved
C3_Witness ==
  /\ pc = "commit"
  /\ phase = 2
  /\ Len(log) = Len(plans)
  /\ Len(plans) >= 2
  /\ now > 0

(***************************************************************************)
(* C4: when an os.replace fails at step k of either phase, the renames     *)
(* performed are exactly those before step k, none is undone: the entries  *)
(* before k of the phase have their temporary (Phase 1) or final (Phase 2) *)
(* name, the others the name they had, and the exit status is 3.           *)
(***************************************************************************)
C4_FailureStopsNoRollback ==
  raised = "OSError" =>
     /\ pc = "exit"
     /\ exit_status = 3
     /\ Len(log) = (phase - 1) * Len(plans) + (idx - 1)
     /\ \A i \in 1..Len(plans) :
          LET src == plans[i][1]
              tmp == plans[i][1] \o temp_tag
              dst == plans[i][2]
          IN /\ (phase = 1 /\ i < idx) => (tmp \in DOMAIN dir /\ dir[tmp] = dir0[src])
             /\ (phase = 1 /\ i >= idx) => (src \in DOMAIN dir /\ dir[src] = dir0[src])
             /\ (phase = 2 /\ i >= idx) => (tmp \in DOMAIN dir /\ dir[tmp] = dir0[src])
             /\ (phase = 2 /\ i < idx) =>
                   /\ dst \in DOMAIN dir
                   /\ \/ dir[dst] = dir0[src]
                      \/ \E j \in (i + 1)..(idx - 1) : plans[j][2] = dst

\* a failure in Phase 2 after at least one final name was assigned
C4_Witness ==
  /\ raised = "OSError"
  /\ phase = 2
  /\ idx >= 2
  /\ Len(plans) >= 2

(***************************************************************************)
(* C5: once Phase 1 has begun the run ends with all renames done or with   *)
(* exit status 3; an interrupt after Phase 1 has partially completed exits *)
(* with status 3, never 0.                                                 *)
(***************************************************************************)
C5_InterruptInCommitExits3 ==
  (pc = "exit" /\ phase >= 1) =>
     \/ Len(log) = 2 * Len(plans)
     \/ exit_status = 3

(***************************************************************************)
(* C6: in both modes no rename is performed before the conflict check has  *)
(* returned the plan and the user has confirmed the preview of exactly     *)
(* that plan; when the user declines the preview, or no file is planned,   *)
(* or the user interrupts before the commit begins, the directory is as it *)
(* was and the exit status is 0.                                           *)
(***************************************************************************)
C6_NoRenameBeforeConfirm ==
  /\ (log # <<>> \/ dir # dir0 \/ phase # 0) =>
        /\ confirmed
        /\ shown = plans
        /\ (check_conflicts(dir0, plans0) = <<>> => plans = plans0)
        /\ (check_conflicts(dir0, plans0) # <<>> => resolved)
  /\ (pc = "exit" /\ raised = "None" /\ ~confirmed) =>
        (dir = dir0 /\ exit_status = 0)
  /\ (pc = "exit" /\ raised = "SystemExit" /\ raised_at = "build") =>
        (dir = dir0 /\ exit_status = 0)
  /\ (pc = "exit" /\ raised = "KeyboardInterrupt"
        /\ raised_at \notin {"commit", "renamed"}) =>
        (dir = dir0 /\ exit_status = 0)

\* the user declined the preview of a plan of the regex mode
C6_Witness ==
  /\ pc = "exit"
  /\ mode = "regex"
  /\ raised = "None"
  /\ shown # <<>>
  /\ ~confirmed

(***************************************************************************)
(* C7: when check_conflicts finds a conflict and the user declines the     *)
(* resolution, the process exits with status 2 and no file was renamed; a  *)
(* plan with conflicts reaches the preview and two_phase_rename only as    *)
(* the plan resolve_conflicts_with_suffix returned.                        *)
(***************************************************************************)
C7_DeclinedConflictExits2 ==
  /\ (pc = "exit" /\ raised = "SystemExit" /\ raised_at = "check") =>
        /\ prompted
        /\ check_conflicts(dir0, plans0) # <<>>
        /\ exit_status = 2
        /\ dir = dir0
        /\ log = <<>>
  /\ (check_conflicts(dir0, plans0) # <<>>
        /\ (pc \in {"preview", "confirmed", "commit", "renamed"}
              \/ shown # <<>> \/ log # <<>>)) =>
        /\ resolved
        /\ \E s \in 0..MaxStart, w \in 0..MaxPad :
             plans = resolve_conflicts_with_suffix(dir0, plans0, s, w)

\* the user declined the resolution of a plan with two equal targets
C7_Witness ==
  /\ pc = "exit"
  /\ raised_at = "check"
  /\ prompted
  /\ ~TargetsDistinct(plans0)

(***************************************************************************)
(* C8: no entry of the plan build_plans or build_plans_normal_mode returns *)
(* has its source name as its target name, in any generation mode.         *)
(***************************************************************************)
C8_NoNoOpEntry ==
  pc # "build" => \A i \in 1..Len(plans0) : plans0[i][1] # plans0[i][2]

\* the template $1-$2 gave 1-2.m its own name: the plan built of a
\* directory with another file to rename leaves the file out
C8_Witness ==
  /\ pc = "check"
  /\ mode = "regex"
  /\ cfg.match_src = <<PatSwap>>
  /\ cfg.replace_expr = <<"$", "1", "-", "$", "2">>
  /\ <<"1", "-", "2", ".", "m">> \in DOMAIN dir0
  /\ <<"1", "-", "2", ".", "m">> \notin PlanSources(plans0)

(***************************************************************************)
(* C9: a plan in which no two entries share a target and no target is an   *)
(* untouched entry is returned by check_conflicts_or_exit as it is,        *)
(* without a prompt and without exit, for either value of auto_resolve.    *)
(***************************************************************************)
C9_ConflictFreePlanUnchanged ==
  ConflictFree(plans0, dir0) =>
     /\ plans = plans0
     /\ ~prompted /\ ~resolved /\ ~had_conflict
     /\ exit_status # 2
     /\ pc = "check" => ENABLED CheckNoConflict

\* a conflict-free plan with a target that is another entry's source has
\* passed the check under auto_resolve
C9_Witness ==
  /\ pc = "preview"
  /\ auto_resolve
  /\ ConflictFree(plans0, dir0)
  /\ PlanTargets(plans0) \cap PlanSources(plans0) # {}

(***************************************************************************)
(* C10: in template mode the new base name of every matching file is the   *)
(* template with each reference $i, 1 <= i <= N, replaced by the text      *)
(* group i captured, in one pass: the inserted text is kept as captured    *)
(* and is not rewritten by another reference.                              *)
(***************************************************************************)
RECURSIVE ExpectedSubst(_, _, _)
\* the template t from position i on, each reference replaced once
ExpectedSubst(t, groups, i) ==
  IF i > Len(t) THEN <<>>
  ELSE IF \E ij \in References(t) : ij[1] = i
  THEN LET j == (CHOOSE ij \in References(t) : ij[1] = i)[2]
           n == IntOf(SubSeq(t, i + 1, j))
       IN (IF n \in 1..Len(groups) THEN groups[n] ELSE SubSeq(t, i, j))
            \o ExpectedSubst(t, groups, j + 1)
  ELSE <<t[i]>> \o ExpectedSubst(t, groups, i + 1)

\* the name the claim gives the file n under the template of cfg
ExpectedName(n) ==
  ExpectedSubst(cfg.replace_expr,
                FirstSearch(compile_matchers(cfg.match_src, cfg.flags), PathStem(n)).groups, 1)
    \o <<".">> \o cfg.new_ext

TemplateMode ==
  /\ mode = "regex"
  /\ cfg.match_src # <<>>
  /\ cfg.total_capture_groups > 0
  /\ Truthy(cfg.replace_expr)

C10_TemplateSubstitutionVerbatim ==
  (pc # "build" /\ TemplateMode /\ GatesPass(dir0, cfg) /\ ValidTemplate(cfg)) =>
     \A n \in Candidates(dir0, cfg.ext) :
        FirstSearch(compile_matchers(cfg.match_src, cfg.flags), PathStem(n)).matched =>
           IF ExpectedName(n) = n THEN n \notin PlanSources(plans0)
           ELSE \E i \in 1..Len(plans0) : plans0[i] = <<n, ExpectedName(n)>>

(***************************************************************************)
(* C11: in movie mode (a pattern, padding_width 0) the episode segment of  *)
(* every new name is E followed by the digits captured from the file name, *)
(* as they were captured: no digit added, none removed.                    *)
(***************************************************************************)
\* the new name with the captured text kept (pick_parts, preserve_format)
VerbatimEpisodeName(c, parts, name) ==
  LeftOf(c.to_prefix) \o <<".", "E">> \o parts[2]
    \o MidOf(c.suffix, RStripDots(LStripDots(parts[3]))) \o PathSuffix(name)

VerbatimEntry(p, n, parts) ==
  parts # None =>
     IF VerbatimEpisodeName(cfg, parts, n) = n THEN n \notin PlanSources(p)
     ELSE <<n, VerbatimEpisodeName(cfg, parts, n)>> \in Range(p)

C11_EpisodeKeptVerbatim ==
  (pc # "build" /\ mode = "movie" /\ cfg.match_src # <<>>
     /\ cfg.padding_width = 0 /\ GatesPass(dir0, cfg)) =>
     \A n \in Candidates(dir0, cfg.ext) :
        VerbatimEntry(plans0, n,
          pick_parts(PathStem(n), compile_matchers(cfg.match_src, cfg.flags), TRUE))

(***************************************************************************)
(* C12: without a pattern, the file at position i (from 0) of the sorted   *)
(* candidates gets the number start + i and the name prefix + number +     *)
(* extension; a file that already has its new name is left out and still   *)
(* takes its number; the entries are in sorted order.                      *)
(***************************************************************************)
\* f lists the candidates in the order of cfg.sort_key
SortedCandidates(f) ==
  \A i, j \in 1..Len(f) : i < j =>
     IF cfg.sort_key = "mtime" THEN Mtime(dir0, f[i]) < Mtime(dir0, f[j])
     ELSE StrLess(f[i], f[j])

\* the name of the file at position i (from 0): build_plans_normal_mode
\* takes the new extension, build_plans keeps the file's own
NumberedName(i, name) ==
  cfg.to_prefix \o format_number(cfg.start + i, cfg.padding_width)
    \o (IF mode = "regex" THEN <<".">> \o cfg.new_ext ELSE PathSuffix(name))

NumberedPlan(f) ==
  SelectSeq([k \in 1..Len(f) |-> <<f[k], NumberedName(k - 1, f[k])>>],
            LAMBDA e : e[1] # e[2])

C12_SequentialNumbering ==
  (pc # "build" /\ cfg.match_src = <<>>) =>
     \E f \in Orders(Candidates(dir0, cfg.ext)) :
        SortedCandidates(f) /\ plans0 = NumberedPlan(f)

\* a file left out of a numbered plan comes before a file of the plan
C12_Witness ==
  /\ pc = "check"
  /\ mode = "regex"
  /\ cfg.match_src = <<>>
  /\ cfg.sort_key = "name"
  /\ \E n \in Candidates(dir0, cfg.ext) \ PlanSources(plans0) :
        \E i \in 1..Len(plans0) : StrLess(n, plans0[i][1])

(***************************************************************************)
(* C13: format_number(n, padding_width) is the decimal string of n, with   *)
(* zeros in front up to padding_width characters when padding_width > 0;   *)
(* nothing is cut off a longer number and the value is always n.           *)
(***************************************************************************)
RECURSIVE NumDigits(_)
NumDigits(n) == IF n < 10 THEN 1 ELSE 1 + NumDigits(n \div 10)

\* the value of the digit c
DigitValue(c) == (CHOOSE k \in 1..10 : DigitChars[k] = c) - 1

\* the number a string of digits denotes
DecimalValue(s) ==
  LET F[k \in 0..Len(s)] == IF k = 0 THEN 0 ELSE 10 * F[k - 1] + DigitValue(s[k])
  IN F[Len(s)]

C13_FormatNumberPads ==
  pc = "formatted" =>
     /\ \A k \in 1..Len(rendered) : IsDigit(rendered[k])
     /\ Len(rendered) = Max({num_padding, NumDigits(num_start)})
     /\ \A k \in 1..(Len(rendered) - NumDigits(num_start)) : rendered[k] = "0"
     /\ DecimalValue(rendered) = num_start
     /\ (num_start = 5 /\ num_padding = 2) => rendered = <<"0", "5">>
     /\ (num_start = 123 /\ num_padding = 2) => rendered = <<"1", "2", "3">>

\* a number longer than the padding width has been formatted
C13_Witness ==
  /\ pc = "formatted"
  /\ num_start = 123
  /\ num_padding = 2

(***************************************************************************)
(* C14: check_conflicts reports a conflict exactly when two entries share  *)
(* a target or a target is a directory entry that is no source of the      *)
(* plan; a target that is a source of the plan is not reported; a target   *)
(* shared by k entries gets k - 1 duplicate records, each with the first   *)
(* entry of that target as its baseline.                                   *)
(***************************************************************************)
\* the indices of the records of the given type and target
RecordsOf(conflicts, type, dst) ==
  {r \in 1..Len(conflicts) : conflicts[r].type = type /\ conflicts[r].dst = dst}

\* the indices of the entries of p with the target dst
EntriesTo(p, dst) == {i \in 1..Len(p) : p[i][2] = dst}

ConflictRecordsRight(p, d, conflicts) ==
  /\ (conflicts # <<>>) <=>
        (~TargetsDistinct(p) \/ PlanTargets(p) \cap Untouched(p, d) # {})
  /\ \A dst \in PlanTargets(p) :
        /\ Cardinality(RecordsOf(conflicts, "duplicate", dst))
             = Cardinality(EntriesTo(p, dst)) - 1
        /\ \A r \in RecordsOf(conflicts, "duplicate", dst) :
             conflicts[r].sources[1] = p[Min(EntriesTo(p, dst))][1]
        /\ (dst \in PlanSources(p) \/ dst \notin DOMAIN d) =>
             RecordsOf(conflicts, "exists", dst) = {}
        /\ (dst \in Untouched(p, d)) =>
             Cardinality(RecordsOf(conflicts, "exists", dst))
               = Cardinality(EntriesTo(p, dst))

C14_ConflictsReported ==
  /\ (pc \in {"check", "preview"}) =>
        ConflictRecordsRight(plans0, dir0, check_conflicts(dir0, plans0))
  /\ (pc # "check" /\ raised_at # "check") =>
        had_conflict = (~TargetsDistinct(plans0)
                          \/ PlanTargets(plans0) \cap Untouched(plans0, dir0) # {})

\* the check has reported a plan of three entries with one target
C14_Witness ==
  /\ pc = "preview"
  /\ had_conflict
  /\ Len(plans0) = 3
  /\ Cardinality(PlanTargets(plans0)) = 1

(***************************************************************************)
(* C15: the resolver keeps one suffix counter for each original target T:  *)
(* the first conflicting entry with T starts at start, each later entry    *)
(* with T at the previous entry's number plus 1, and an entry takes the    *)
(* first number from there on whose name stem(T) + number + ext(T) is not  *)
(* taken; entries with another target do not move T's counter.             *)
(***************************************************************************)
\* stem(T) + render(c) + ext(T)
SuffixedName(dst, c, w) ==
  splitext(dst)[1] \o format_number(c, w) \o splitext(dst)[2]

\* the entry's target is shared or is an untouched entry of the directory
Conflicting(p, d, i) ==
  Cardinality(EntriesTo(p, p[i][2])) > 1 \/ p[i][2] \in Untouched(p, d)

\* numbers up to which a counter can get
CounterRange(p, d, s) == 0..(s + Len(p) + Cardinality(DOMAIN d))

\* the number whose suffixed name is the resolved target of entry i
CounterOf(p, d, r, i, s, w) ==
  CHOOSE c \in CounterRange(p, d, s) : r[i][2] = SuffixedName(p[i][2], c, w)

\* the names taken when entry i is resolved
TakenBefore(p, d, r, i) == Untouched(p, d) \cup {r[j][2] : j \in 1..(i - 1)}

\* where the counter of entry i starts
CounterBase(p, d, r, i, s, w) ==
  IF \E j \in 1..(i - 1) : p[j][2] = p[i][2]
  THEN CounterOf(p, d, r, Max({j \in 1..(i - 1) : p[j][2] = p[i][2]}), s, w) + 1
  ELSE s

FirstFreeFrom(p, d, r, i, w, base, c) ==
  /\ c >= base
  /\ r[i][2] = SuffixedName(p[i][2], c, w)
  /\ r[i][2] \notin TakenBefore(p, d, r, i)
  /\ \A k \in base..(c - 1) : SuffixedName(p[i][2], k, w) \in TakenBefore(p, d, r, i)

CountersPerTarget(p, d, r, s, w) ==
  \A i \in 1..Len(p) : Conflicting(p, d, i) =>
     \E c \in CounterRange(p, d, s) :
        FirstFreeFrom(p, d, r, i, w, CounterBase(p, d, r, i, s, w), c)

\* stated where the resolver has just returned: the plans and dir0 are the
\* same in every later state
C15_SuffixCountersPerTarget ==
  (resolved /\ pc = "preview") =>
     /\ Len(plans) = Len(plans0)
     /\ \E s \in 0..MaxStart, w \in 0..MaxPad :
          /\ auto_resolve => (s = num_start /\ w = num_padding)
          /\ CountersPerTarget(plans0, dir0, plans, s, w)

\* o0.t is taken: two entries with the target o.t became o1.t and o2.t
C15_Witness ==
  /\ resolved
  /\ pc = "preview"
  /\ auto_resolve /\ num_start = 0 /\ num_padding = 0
  /\ Name(<<"o", "0">>) \in DOMAIN dir0
  /\ \E i, j \in 1..Len(plans0) :
       /\ i < j
       /\ plans0[i][2] = Name(<<"o">>) /\ plans0[j][2] = Name(<<"o">>)
       /\ plans[i][2] = Name(<<"o", "1">>) /\ plans[j][2] = Name(<<"o", "2">>)

(***************************************************************************)
(* C16: the resolved plan has the length and the sources of the input      *)
(* plan, in order; an entry whose target is neither shared nor an          *)
(* untouched entry of the directory keeps its target; a changed target     *)
(* keeps the extension of the original.  The input plan is plans0: the     *)
(* resolver reads it and returns a new list.                               *)
(***************************************************************************)
C16_ResolverFrame ==
  (resolved /\ pc = "preview") =>
     /\ Len(plans) = Len(plans0)
     /\ \A i \in 1..Len(plans0) :
          /\ plans[i][1] = plans0[i][1]
          /\ ~Conflicting(plans0, dir0, i) => plans[i][2] = plans0[i][2]
          /\ splitext(plans[i][2])[2] = splitext(plans0[i][2])[2]

\* the resolver changed one target of the plan and kept another
C16_Witness ==
  /\ resolved
  /\ pc = "preview"
  /\ \E i, j \in 1..Len(plans0) :
       plans[i][2] # plans0[i][2] /\ plans[j][2] = plans0[j][2]

(***************************************************************************)
(* C17: where a plan is built from patterns, they are tried in the order   *)
(* listed and the match used for a file is the first search that succeeds  *)
(* with at least one group; a pattern that matches without a group counts  *)
(* as not matching; a file no pattern qualifies for is not in the plan.    *)
(***************************************************************************)
RECURSIVE FirstGroupSearchLoop(_, _, _)
FirstGroupSearchTry(matchers, base, k, m) ==
  IF m.matched /\ LastIndex(m) > 0 THEN m
  ELSE FirstGroupSearchLoop(matchers, base, k + 1)

FirstGroupSearchLoop(matchers, base, k) ==
  IF k > Len(matchers) THEN NoMatch
  ELSE FirstGroupSearchTry(matchers, base, k, Search(matchers[k], base))

\* the first match, in the order listed, that has a group
FirstGroupSearch(n) ==
  FirstGroupSearchLoop(compile_matchers(cfg.match_src, cfg.flags), PathStem(n), 1)

\* the template mode built the entry of n from the match m
TemplateEntryFrom(p, n, m) ==
  IF ~m.matched THEN n \notin PlanSources(p)
  ELSE IF TemplateName(cfg, m) = n THEN n \notin PlanSources(p)
  ELSE <<n, TemplateName(cfg, m)>> \in Range(p)

\* pick_parts returned the parts of the match m
PartsFrom(n, m) ==
  pick_parts(PathStem(n), compile_matchers(cfg.match_src, cfg.flags), FALSE)
    = (IF m.matched THEN PartsOf(PathStem(n), m, FALSE) ELSE None)

C17_FirstMatchWithGroup ==
  (pc # "build" /\ cfg.match_src # <<>> /\ GatesPass(dir0, cfg) /\ ValidTemplate(cfg)) =>
     \A n \in Candidates(dir0, cfg.ext) :
        /\ (mode = "movie") =>
              /\ PartsFrom(n, FirstGroupSearch(n))
              /\ ~FirstGroupSearch(n).matched => n \notin PlanSources(plans0)
        /\ TemplateMode => TemplateEntryFrom(plans0, n, FirstGroupSearch(n))

(***************************************************************************)
(* C18: when the plan has gone through check_conflicts_or_exit (conflicts  *)
(* resolved), is confirmed and two_phase_rename completes, no content is   *)
(* lost: the directory holds as many files as before, every file outside   *)
(* the plan is as it was, and the content of every source is under exactly *)
(* one name.                                                               *)
(***************************************************************************)
\* the names of d that hold the content c
HoldersOf(d, c) == {n \in DOMAIN d : d[n] = c}

C18_NoContentLost ==
  (RenameCompleted /\ raised # "OSError"
     /\ (check_conflicts(dir0, plans0) # <<>> => resolved)) =>
     /\ Cardinality(DOMAIN dir) = Cardinality(DOMAIN dir0)
     /\ \A n \in Untouched(plans0, dir0) : n \in DOMAIN dir /\ dir[n] = dir0[n]
     /\ \A i \in 1..Len(plans0) :
          Cardinality(HoldersOf(dir, dir0[plans0[i][1]])) = 1

(***************************************************************************)
(* C19: in regex mode the zero-match gate agrees with the builder: every   *)
(* file the template mode treats as matching is counted by count_matches   *)
(* for the same pattern and flags, so the gate reports no zero where the   *)
(* builder would match a file.                                             *)
(***************************************************************************)
\* the files the matcher loop of the template mode matches
BuilderMatches ==
  {n \in Candidates(dir0, cfg.ext) :
     FirstSearch(compile_matchers(cfg.match_src, cfg.flags), PathStem(n)).matched}

C19_GateAgreesWithBuilder ==
  (pc # "build" /\ TemplateMode) =>
     /\ count_matches(dir0, cfg.ext, cfg.match_src, cfg.flags)
          >= Cardinality(BuilderMatches)
     /\ (BuilderMatches # {}) =>
          count_matches(dir0, cfg.ext, cfg.match_src, cfg.flags) > 0

(***************************************************************************)
(* C20: no plan shown by preview_and_confirm has an entry whose source is  *)
(* its target, plans returned by resolve_conflicts_with_suffix included:   *)
(* the suffixed target of an entry is not the entry's own name.            *)
(***************************************************************************)
C20_NoNoOpShown ==
  \A i \in 1..Len(shown) : shown[i][1] # shown[i][2]

=============================================================================
